---- MODULE Spec2Model ----
(***************************************************************************)
(* Model of the triangle weight picker (src/entrada.js).                   *)
(*                                                                         *)
(* JavaScript numbers are modelled as exact rationals n/d * (10^12)^e,     *)
(* extended with NaN and the two infinities, so that division by zero and  *)
(* 0 * Infinity behave as in IEEE arithmetic.  Rounding error of the       *)
(* 53-bit mantissa is not modelled; the two-decimal rounding of toFixed(2) *)
(* and the 1e-12 / 1e-6 / 0.001 thresholds of the code are.                *)
(***************************************************************************)
EXTENDS Integers, Sequences, FiniteSets, TLC

----------------------------------------------------------------------------
(* Numbers *)

AbsI(i) == IF i < 0 THEN -i ELSE i

RECURSIVE Gcd(_, _)
Gcd(a, b) == IF b = 0 THEN a ELSE Gcd(b, a % b)

Fin(n, d, e) == [k |-> "fin", n |-> n, d |-> d, e |-> e]
NaN == [k |-> "nan", n |-> 0, d |-> 1, e |-> 0]
PosInf == [k |-> "inf", n |-> 1, d |-> 1, e |-> 0]
NegInf == [k |-> "inf", n |-> -1, d |-> 1, e |-> 0]
Zero == Fin(0, 1, 0)

\* the rational n/d (d # 0) in lowest terms, scaled by (10^12)^e
Rat(n, d, e) ==
  IF n = 0 THEN Zero
  ELSE LET g == Gcd(AbsI(n), AbsI(d))
           s == IF d < 0 THEN -1 ELSE 1
       IN Fin(s * (n \div g), s * (d \div g), e)

Q(n, d) == Rat(n, d, 0)
I(n) == Fin(n, 1, 0)

IsNaN(a) == a.k = "nan"
IsInf(a) == a.k = "inf"
IsFin(a) == a.k = "fin"
IsZero(a) == a.k = "fin" /\ a.n = 0
Sign(a) == IF a.n > 0 THEN 1 ELSE IF a.n < 0 THEN -1 ELSE 0

Neg(a) == IF IsNaN(a) THEN NaN ELSE [a EXCEPT !.n = -a.n]

Mul(a, b) ==
  IF IsNaN(a) \/ IsNaN(b) THEN NaN
  ELSE IF IsInf(a) \/ IsInf(b)
    THEN IF IsZero(a) \/ IsZero(b) THEN NaN
         ELSE IF Sign(a) * Sign(b) > 0 THEN PosInf ELSE NegInf
  ELSE IF a.n = 0 \/ b.n = 0 THEN Zero
  ELSE LET g1 == Gcd(AbsI(a.n), b.d)
           g2 == Gcd(AbsI(b.n), a.d)
       IN Fin((a.n \div g1) * (b.n \div g2), (a.d \div g2) * (b.d \div g1), a.e + b.e)

\* IEEE division; a zero divisor is taken as +0
Div(a, b) ==
  IF IsNaN(a) \/ IsNaN(b) THEN NaN
  ELSE IF IsInf(a)
    THEN IF IsInf(b) THEN NaN
         ELSE IF Sign(a) * (IF Sign(b) < 0 THEN -1 ELSE 1) > 0 THEN PosInf ELSE NegInf
  ELSE IF IsInf(b) THEN Zero
  ELSE IF b.n = 0
    THEN IF a.n = 0 THEN NaN ELSE IF a.n > 0 THEN PosInf ELSE NegInf
  ELSE Mul(a, IF b.n > 0 THEN Fin(b.d, b.n, -b.e) ELSE Fin(-b.d, -b.n, -b.e))

\* sums of unequal scale keep the dominant term (the smaller one is below
\* 1e-12 of it); the handlers modelled here only add values of equal scale
Add(a, b) ==
  IF IsNaN(a) \/ IsNaN(b) THEN NaN
  ELSE IF IsInf(a)
    THEN IF IsInf(b) /\ Sign(a) # Sign(b) THEN NaN ELSE a
  ELSE IF IsInf(b) THEN b
  ELSE IF a.n = 0 THEN b
  ELSE IF b.n = 0 THEN a
  ELSE IF a.e > b.e THEN a
  ELSE IF b.e > a.e THEN b
  ELSE LET g == Gcd(a.d, b.d)
       IN Rat(a.n * (b.d \div g) + b.n * (a.d \div g), (a.d \div g) * b.d, a.e)

Sub(a, b) == Add(a, Neg(b))

\* -1, 0, 1 as n1/d1 is below, equal to, above n2/d2 (d1, d2 > 0), computed
\* by continued fractions so that no product is formed
RECURSIVE CmpQ(_, _, _, _)
CmpQ(n1, d1, n2, d2) ==
  LET q1 == n1 \div d1
      q2 == n2 \div d2
      r1 == n1 % d1
      r2 == n2 % d2
  IN IF q1 < q2 THEN -1
     ELSE IF q1 > q2 THEN 1
     ELSE IF r1 = 0 /\ r2 = 0 THEN 0
     ELSE IF r1 = 0 THEN -1
     ELSE IF r2 = 0 THEN 1
     ELSE CmpQ(d2, r2, d1, r1)

\* comparison of two numbers that are not NaN; across scales the sign and
\* then the scale decide, since every mantissa lies within (1e-12, 1e12)
Cmp(a, b) ==
  IF IsInf(a) \/ IsInf(b)
    THEN IF IsInf(a) /\ IsInf(b) /\ Sign(a) = Sign(b) THEN 0
         ELSE IF (IsInf(a) /\ Sign(a) < 0) \/ (IsInf(b) /\ Sign(b) > 0) THEN -1 ELSE 1
  ELSE IF Sign(a) # Sign(b) THEN (IF Sign(a) < Sign(b) THEN -1 ELSE 1)
  ELSE IF Sign(a) = 0 THEN 0
  ELSE IF a.e # b.e THEN (IF (a.e < b.e) = (Sign(a) > 0) THEN -1 ELSE 1)
  ELSE CmpQ(a.n, a.d, b.n, b.d)

\* the JavaScript relations: every comparison with NaN is false
Lt(a, b) == ~IsNaN(a) /\ ~IsNaN(b) /\ Cmp(a, b) < 0
Le(a, b) == ~IsNaN(a) /\ ~IsNaN(b) /\ Cmp(a, b) <= 0
Gt(a, b) == Lt(b, a)
Ge(a, b) == Le(b, a)

\* Math.max, Math.min, Math.abs
MathMax(a, b) == IF IsNaN(a) \/ IsNaN(b) THEN NaN ELSE IF Cmp(a, b) >= 0 THEN a ELSE b
MathMin(a, b) == IF IsNaN(a) \/ IsNaN(b) THEN NaN ELSE IF Cmp(a, b) <= 0 THEN a ELSE b
MathAbs(a) == IF IsNaN(a) THEN NaN ELSE [a EXCEPT !.n = AbsI(a.n)]

\* truthiness of a number: 0 and NaN are falsy
Truthy(a) == ~IsNaN(a) /\ ~IsZero(a)

\* Math.floor and Math.round of a finite number of unit scale
MathFloor(a) == I(a.n \div a.d)
MathRound(a) == MathFloor(Add(a, Q(1, 2)))

\* Number.prototype.toFixed(2) read back as a number: the nearest multiple
\* of 0.01, ties away from zero; "NaN" for NaN
ToFixed2(a) ==
  IF ~IsFin(a) THEN a
  ELSE IF a.e > 0 THEN a
  ELSE IF a.e < 0 THEN Zero
  ELSE LET m == AbsI(a.n)
           q == m \div a.d
           r == m % a.d
           h == 100 * q + ((100 * r) \div a.d)
           r2 == (100 * r) % a.d
           H == IF 2 * r2 >= a.d THEN h + 1 ELSE h
       IN Q(Sign(a) * H, 100)

\* parseFloat(text) || 0
ParseFloatOr0(f) == IF Truthy(f) THEN f ELSE Zero

----------------------------------------------------------------------------
(* Geometry kernel *)

Pt(x, y) == [x |-> x, y |-> y]

vertexToChannel == <<"B", "R", "G">>
Channels == {"R", "G", "B"}
idx(lab) == CASE lab = "R" -> 1 [] lab = "G" -> 2 [] lab = "B" -> 3

area(ax, ay, bx, by, cx, cy) ==
  Sub(Mul(Sub(bx, ax), Sub(cy, ay)), Mul(Sub(cx, ax), Sub(by, ay)))

barycentric(px, py, A, B, C) ==
  LET d == area(A.x, A.y, B.x, B.y, C.x, C.y)
      w1 == Div(area(px, py, B.x, B.y, C.x, C.y), d)
      w2 == Div(area(px, py, C.x, C.y, A.x, A.y), d)
      w3 == Sub(Sub(I(1), w1), w2)
  IN <<w1, w2, w3>>

InsideTol == Q(1, 1000000)

\* inside with || for &&
insideAny(w) == Ge(w[1], InsideTol) \/ Ge(w[2], InsideTol) \/ Ge(w[3], InsideTol)

inside(w) == Ge(w[1], InsideTol) /\ Ge(w[2], InsideTol) /\ Ge(w[3], InsideTol)

Eps == Fin(1, 1, -1)
Sum3(t) == Add(Add(t[1], t[2]), t[3])

norm3p(r, g, b) ==
  LET s == MathMax(Sum3(<<r, g, b>>), Eps)
  IN <<Mul(Div(r, s), I(100)), Mul(Div(g, s), I(100)), Mul(Div(b, s), I(100))>>

clamp01p(v) == MathMax(Zero, MathMin(I(100), v))

\* baryToRGB that keeps the vertex order and ignores the channel map
baryToRGBNoMap(w, map) ==
  LET s == MathMax(Sum3(w), Eps)
  IN <<Div(w[1], s), Div(w[2], s), Div(w[3], s)>>

baryToRGB(w, map) ==
  LET out == [j \in 1..3 |->
                IF \E i \in 1..3 : idx(map[i]) = j
                  THEN w[CHOOSE i \in 1..3 : idx(map[i]) = j] ELSE Zero]
      s == MathMax(Sum3(out), Eps)
  IN <<Div(out[1], s), Div(out[2], s), Div(out[3], s)>>

\* rgbToBary that keeps the channel order and ignores the channel map
rgbToBaryNoMap(c, map) == <<c[1], c[2], c[3]>>

rgbToBary(c, map) == <<c[idx(map[1])], c[idx(map[2])], c[idx(map[3])]>>

----------------------------------------------------------------------------
(* Vertex locator: pixels are <<x, y>> pairs of the w x h raster *)

TH == 30
Band == 3

RECURSIVE SumX(_)
SumX(S) == IF S = {} THEN 0 ELSE LET p == CHOOSE p \in S : TRUE IN p[1] + SumX(S \ {p})

MinOf(S) == CHOOSE m \in S : \A n \in S : m <= n
MaxOf(S) == CHOOSE m \in S : \A n \in S : m >= n

\* the first element of S in the scan order of the pixel loop (rows, then columns)
FirstInScan(S) ==
  CHOOSE p \in S : \A q \in S : p[2] < q[2] \/ (p[2] = q[2] /\ p[1] <= q[1])

\* the scan with the threshold one too low
OpaquePixelsLowTH(alpha, w, h) ==
  {p \in DOMAIN alpha : p[1] \in 0..(w - 1) /\ p[2] \in 0..(h - 1) /\ alpha[p] >= TH - 1}

\* the pixels pushed by the scan of the w x h raster: those with alpha >= TH.
\* alpha lists the pixels that are not fully transparent, so only they can pass.
OpaquePixels(alpha, w, h) ==
  {p \in DOMAIN alpha : p[1] \in 0..(w - 1) /\ p[2] \in 0..(h - 1) /\ alpha[p] >= TH}

FallbackTop(w, h) == Pt(Q(w, 2), Zero)
FallbackLeft(w, h) == Pt(Zero, I(h - 1))
FallbackRight(w, h) == Pt(I(w - 1), I(h - 1))

\* extreme that takes, for 'y', the first pixel of the band in scan order
extremeFirstOfBand(pts, w, h, key, min) ==
  IF pts = {}
    THEN IF key = 2 THEN FallbackTop(w, h)
         ELSE IF min THEN FallbackLeft(w, h) ELSE FallbackRight(w, h)
  ELSE LET vs == {p[key] : p \in pts}
           ex == IF min THEN MinOf(vs) ELSE MaxOf(vs)
           sel == {p \in pts : AbsI(p[key] - ex) <= Band}
           pick == IF key = 2 THEN FirstInScan(sel)
                   ELSE FirstInScan({p \in sel : \A q \in sel : p[2] >= q[2]})
       IN Pt(I(pick[1]), I(pick[2]))

\* extreme that takes, for 'x', the pixel of the band closest to the extreme
extremeNearestToEdge(pts, w, h, key, min) ==
  IF pts = {}
    THEN IF key = 2 THEN FallbackTop(w, h)
         ELSE IF min THEN FallbackLeft(w, h) ELSE FallbackRight(w, h)
  ELSE LET vs == {p[key] : p \in pts}
           ex == IF min THEN MinOf(vs) ELSE MaxOf(vs)
           sel == {p \in pts : AbsI(p[key] - ex) <= Band}
           pick ==
             IF key = 2
               THEN LET n == Cardinality(sel)
                        sx == SumX(sel)
                        dist(p) == AbsI(p[1] * n - sx)
                    IN FirstInScan({p \in sel : \A q \in sel : dist(p) <= dist(q)})
             ELSE FirstInScan({p \in sel : p[key] = ex})
       IN Pt(I(pick[1]), I(pick[2]))

\* a band filter that keeps the pixels strictly inside the band of the
\* extreme, the extreme itself excluded
selInner(pts, key, min) ==
  LET vs == {p[key] : p \in pts}
      ex == IF min THEN MinOf(vs) ELSE MaxOf(vs)
  IN {p \in pts : AbsI(p[key] - ex) <= Band /\ p[key] # ex}

\* the band filter of extreme: the pixels of a non-empty pts whose key is
\* within Band of the extreme value
sel(pts, key, min) ==
  LET vs == {p[key] : p \in pts}
      ex == IF min THEN MinOf(vs) ELSE MaxOf(vs)
  IN {p \in pts : AbsI(p[key] - ex) <= Band}

\* extreme(key, min, band) of detectVerticesByAlpha; key is 1 for 'x', 2 for 'y'
extreme(pts, w, h, key, min) ==
  IF pts = {}
    THEN IF key = 2 THEN FallbackTop(w, h)
         ELSE IF min THEN FallbackLeft(w, h) ELSE FallbackRight(w, h)
  ELSE LET vs == {p[key] : p \in pts}
           ex == IF min THEN MinOf(vs) ELSE MaxOf(vs)
           inBand == sel(pts, key, min)
           pick ==
             IF inBand = {}
               THEN FirstInScan({p \in pts : \A q \in pts :
                                   AbsI(p[key] - ex) <= AbsI(q[key] - ex)})
             ELSE IF key = 2
               THEN LET n == Cardinality(inBand)
                        sx == SumX(inBand)
                        dist(p) == AbsI(p[1] * n - sx)
                    IN FirstInScan({p \in inBand : \A q \in inBand : dist(p) <= dist(q)})
             ELSE FirstInScan({p \in inBand : \A q \in inBand : p[2] >= q[2]})
       IN Pt(I(pick[1]), I(pick[2]))

detectVerticesByAlpha(alpha, w, h) ==
  LET pts == OpaquePixels(alpha, w, h)
  IN IF pts = {}
       THEN [top |-> FallbackTop(w, h), left |-> FallbackLeft(w, h),
             right |-> FallbackRight(w, h)]
       ELSE [top |-> extreme(pts, w, h, 2, TRUE), left |-> extreme(pts, w, h, 1, TRUE),
             right |-> extreme(pts, w, h, 1, FALSE)]

----------------------------------------------------------------------------
(* Layout of the image on the canvas (initEntrada) *)

PadTop == 30
PadBottom == 30
PadSides == 40
FillRatio == Q(7, 10)

Layout(cw, ch, iw, ih) ==
  LET maxW == I(cw - PadSides)
      maxH == I(ch - PadTop - PadBottom)
      scale == Mul(MathMin(Div(maxW, I(iw)), Div(maxH, I(ih))), FillRatio)
      w == MathRound(Mul(I(iw), scale)).n
      h == MathRound(Mul(I(ih), scale)).n
      x == MathFloor(Q(cw - w, 2)).n
      y == PadTop + MathFloor(Mul(I(ch - PadTop - PadBottom - h), Q(1, 2))).n
  IN [x |-> x, y |-> y, w |-> w, h |-> h]

Offset(rect, p) == Pt(Add(I(rect.x), p.x), Add(I(rect.y), p.y))

----------------------------------------------------------------------------
(* Inputs *)

\* a session: canvas size, natural image size and the alpha channel of the
\* scaled raster (pixels not listed have alpha 0)
Scene(cw, ch, iw, ih, alpha) == [cw |-> cw, ch |-> ch, iw |-> iw, ih |-> ih, alpha |-> alpha]

\* the sessions in which events are explored: a glyph with corners
\* (50,0), (0,100), (100,100), an all-transparent image and a single pixel
Glyph ==
  Scene(200, 204, 101, 101,
        <<50, 0>> :> 255 @@ <<0, 100>> :> 255 @@ <<100, 100>> :> 255 @@ <<50, 60>> :> 29)
Scenes ==
  { Glyph,
    Scene(50, 70, 10, 10, <<3, 3>> :> 29 @@ <<0, 0>> :> 12),
    Scene(50, 70, 10, 10, <<3, 3>> :> 255) }

\* texts typed into a percentage field, by the number parseFloat reads from them
TypedValues == { I(-100), I(0), I(50), I(60), I(100), I(150) }

\* pointer positions as affine combinations of the triangle's corners, in
\* quarters and sevenths: corners, edge midpoints, interior and outside points
PointWeights ==
  { <<4, 0, 0, 4>>, <<0, 4, 0, 4>>, <<0, 0, 4, 4>>,
    <<2, 2, 0, 4>>, <<0, 2, 2, 4>>, <<2, 0, 2, 4>>,
    <<2, 1, 1, 4>>, <<1, 2, 4, 7>>,
    <<-1, 2, 3, 4>>, <<6, -1, -1, 4>> }

GridDiv == 1
FarAway == 1000

\* the number of events explored in a session, and in a long session
MaxSteps == 2
LongSteps == 3

\* the rasters given to the vertex locator alone: every assignment of the
\* alpha values in LocatorAlphas to the pixels in LocatorPixels, for the
\* canvases 50 + 10j wide, j < LocatorSizes
LocatorSizes == 3
LocatorAlphas == {0, 29, 30, 255}
LocatorPixels == {<<0, 0>>, <<3, 0>>, <<4, 2>>, <<1, 5>>, <<6, 6>>}
LocatorScenes ==
  { Scene(50 + 10 * j, 70 + 6 * j, 10, 10 + j, a) :
      j \in 0..(LocatorSizes - 1), a \in [LocatorPixels -> LocatorAlphas] }

\* pointer positions tried on a triangle: the combinations above, the
\* centroid, a grid over the bounding box and one point far outside
PointsOf(T) ==
  LET xs == {MathFloor(T.top.x).n, MathFloor(T.left.x).n, MathFloor(T.right.x).n}
      ys == {MathFloor(T.top.y).n, MathFloor(T.left.y).n, MathFloor(T.right.y).n}
      x0 == MinOf(xs)
      y0 == MinOf(ys)
      sx == IF (MaxOf(xs) - x0) \div GridDiv > 1 THEN (MaxOf(xs) - x0) \div GridDiv ELSE 1
      sy == IF (MaxOf(ys) - y0) \div GridDiv > 1 THEN (MaxOf(ys) - y0) \div GridDiv ELSE 1
      comb(a, b, c, w) == Mul(Add(Add(Mul(I(w[1]), a), Mul(I(w[2]), b)), Mul(I(w[3]), c)),
                              Q(1, w[4]))
  IN {Pt(comb(T.top.x, T.left.x, T.right.x, w), comb(T.top.y, T.left.y, T.right.y, w)) :
        w \in PointWeights \cup {<<1, 1, 1, 3>>}}
       \cup {Pt(I(x0 + i * sx), I(y0 + j * sy)) : i \in 0..GridDiv, j \in 0..GridDiv}
       \cup {Pt(I(x0 - FarAway), I(y0 - FarAway))}

----------------------------------------------------------------------------
(* State *)

VARIABLES
  pc,        \* "loaded" once the image is loaded, "ready" once initEntrada returns
  scene,     \* the canvas and image of this session
  rect,      \* where the image is drawn on the canvas
  v,         \* the vertices located in the image
  V,         \* the triangle in canvas coordinates: Vtop, Vleft, Vright
  points,    \* the pointer positions tried in this session
  rgb,       \* the weight vector, as fractions
  fields,    \* the values shown in rEl, gEl, bEl
  dragging,
  budget,    \* the number of events explored in this session
  steps,     \* the number of events handled so far
  last,      \* the last event handled: its inputs, what it read and what it did;
             \* armed: the latest mousedown was in the closed triangle, no mouseup since
  dialog,    \* the confirmation dialog, its listeners and the onConfirm callback
  launcher   \* start.js: the health check of the Python backend and the Node server

widget == <<pc, scene, rect, v, V, points, rgb, fields, dragging, budget, steps, last,
            dialog>>
vars == <<pc, scene, rect, v, V, points, rgb, fields, dragging, budget, steps, last,
          dialog, launcher>>

drawFromRGB(c, T) ==
  LET w == rgbToBary(c, vertexToChannel)
  IN Pt(Add(Add(Mul(w[1], T.top.x), Mul(w[2], T.left.x)), Mul(w[3], T.right.x)),
        Add(Add(Mul(w[1], T.top.y), Mul(w[2], T.left.y)), Mul(w[3], T.right.y)))

\* setPerc(r, g, b): the fields and the weight vector it leaves.  Every
\* call draws, so the marker on the canvas is always drawFromRGB of rgb
\* (Marker below) and is not kept as a variable of its own.
setPerc(r, g, b) ==
  [fields |-> <<ToFixed2(r), ToFixed2(g), ToFixed2(b)>>,
   rgb |-> <<Div(r, I(100)), Div(g, I(100)), Div(b, I(100))>>]

----------------------------------------------------------------------------
(* Weight state: rebalance *)

FixTol == Q(1, 1000)
Others(i) == (1..3) \ {i}

\* k that divides by the full 100 instead of the sum of the other two
rebalanceKNoRem(n, i, newVal) == Div(Sub(I(100), newVal), I(100))

\* k of rebalance, for the normalized values n and the clamped new value
rebalanceK(n, i, newVal) ==
  LET a == MinOf(Others(i))
      b == MaxOf(Others(i))
      rem == Add(n[a], n[b])
  IN IF Truthy(rem) THEN Div(Sub(I(100), newVal), rem) ELSE Q(1, 2)

\* a pass that splits the remainder equally between the other two
rebalanceScaleEqualSplit(n, i, newVal) ==
  [j \in 1..3 |-> IF j = i THEN newVal ELSE Mul(Sub(I(100), newVal), Q(1, 2))]

\* the proportional pass: the other two channels times k, the focus set
rebalanceScale(n, i, newVal) ==
  LET k == rebalanceK(n, i, newVal)
  IN [j \in 1..3 |-> IF j = i THEN newVal ELSE Mul(n[j], k)]

\* a residual pass that rescales all three channels, the focus included
rebalanceFixAll(c, i) ==
  LET tot == Sum3(c)
  IN IF Gt(MathAbs(Sub(tot, I(100))), FixTol)
       THEN [j \in 1..3 |-> Mul(c[j], Div(I(100), tot))]
       ELSE c

\* the residual pass: the other two channels times 100/tot
rebalanceFix(c, i) ==
  LET tot == Sum3(c)
  IN IF Gt(MathAbs(Sub(tot, I(100))), FixTol)
       THEN [j \in 1..3 |-> IF j # i THEN Mul(c[j], Div(I(100), tot)) ELSE c[j]]
       ELSE c

\* rebalance(focus, newVal) on the field values f: the r, g, b it hands to setPerc
rebalance(f, focus, newVal) ==
  LET n == norm3p(ParseFloatOr0(f[1]), ParseFloatOr0(f[2]), ParseFloatOr0(f[3]))
  IN rebalanceFix(rebalanceScale(n, idx(focus), clamp01p(newVal)), idx(focus))

----------------------------------------------------------------------------
(* Events *)

\* the marker position on the canvas
Marker == drawFromRGB(rgb, V)

NoPoint == Pt(Zero, Zero)
NoRead == <<Zero, Zero, Zero>>
EditOps == {"input", "change"}
PointOps == {"mousedown", "mousemove", "click"}

\* the cross products that place p against the three edges of T
EdgeSides(p, T) ==
  <<area(p.x, p.y, T.left.x, T.left.y, T.right.x, T.right.y),
    area(p.x, p.y, T.right.x, T.right.y, T.top.x, T.top.y),
    area(p.x, p.y, T.top.x, T.top.y, T.left.x, T.left.y)>>
Winding(T) == area(T.top.x, T.top.y, T.left.x, T.left.y, T.right.x, T.right.y)

\* p lies outside the closed triangle T (every point does when T has no area)
OutsideTriangle(p, T) ==
  \/ IsZero(Winding(T))
  \/ \E i \in 1..3 : Sign(EdgeSides(p, T)[i]) * Sign(Winding(T)) < 0

NoTriangle == [top |-> NoPoint, left |-> NoPoint, right |-> NoPoint]
NoEvent ==
  [op |-> "none", p |-> NoPoint, focus |-> "-", newVal |-> Zero,
   called |-> FALSE, ret |-> FALSE, before |-> NoRead, read |-> NoRead,
   rgbChanged |-> FALSE, fieldsChanged |-> FALSE, repeated |-> FALSE,
   armed |-> FALSE]

\* the dialog before any confirmation: closed, no listener on dlgOk or
\* dlgReset, onConfirm = null.  pending holds, per confirmation whose ok and re
\* listeners are still attached, the r, g, b its closure captured; delivered
\* holds what the last click on dlgOk handed to onConfirm
NoDialog ==
  [open |-> FALSE, text |-> NoRead, pending |-> <<>>, onConfirm |-> FALSE,
   delivered |-> <<>>]

\* start.js once the Python backend is spawned and checkBackendHealth has set
\* its waitTime timer: no marker seen, no request sent, no server spawned.
\* open and destroyed count the health requests in flight and those destroyed
\* by their timeout handler; timers counts the pending setTimeout(attempt);
\* calls lists the arguments of the callback; spawnedUnready tells whether a
\* server was spawned when neither a marker nor a status 200 had been seen.
\* python and servers are the child processes: whether each still runs and
\* whether the launcher has sent it a kill.  exited, code and cause tell how
\* the launcher ended; orphaned tells whether a child that was running then
\* had not been sent a kill
NoCause == [by |-> "none", code |-> 0]
LauncherStart ==
  [timer |-> "waiting", backendReady |-> FALSE, saw200 |-> FALSE, retries |-> 0,
   sent |-> 0, open |-> 0, destroyed |-> 0, timers |-> 0, calls |-> <<>>,
   nodes |-> 0, spawnedUnready |-> FALSE,
   python |-> [running |-> TRUE, killed |-> FALSE], servers |-> <<>>,
   exited |-> FALSE, code |-> 0, cause |-> NoCause, orphaned |-> FALSE]

\* the image of session sc has loaded; nothing is laid out or located yet
Loaded(sc, n) ==
  /\ pc = "loaded"
  /\ budget = n
  /\ scene = sc
  /\ rect = [x |-> 0, y |-> 0, w |-> 0, h |-> 0]
  /\ v = NoTriangle
  /\ V = NoTriangle
  /\ points = {}
  /\ rgb = NoRead
  /\ fields = NoRead
  /\ dragging = FALSE
  /\ steps = 0
  /\ last = NoEvent
  /\ dialog = NoDialog
  /\ launcher = LauncherStart

Init == \E sc \in Scenes : Loaded(sc, MaxSteps)
InitLong == Loaded(Glyph, LongSteps)
InitLocator == \E sc \in LocatorScenes : Loaded(sc, 0)

\* initEntrada after the image load: layout, vertex location, first setPerc
InitEntrada ==
  /\ pc = "loaded"
  /\ pc' = "ready"
  /\ rect' = Layout(scene.cw, scene.ch, scene.iw, scene.ih)
  /\ v' = detectVerticesByAlpha(scene.alpha, rect'.w, rect'.h)
  /\ V' = [top |-> Offset(rect', v'.top), left |-> Offset(rect', v'.left),
           right |-> Offset(rect', v'.right)]
  /\ points' = PointsOf(V')
  /\ LET s == setPerc(Q(333333, 10000), Q(333333, 10000), Q(333333, 10000))
     IN /\ rgb' = s.rgb
        /\ fields' = s.fields
  /\ last' = [NoEvent EXCEPT !.op = "init"]
  /\ UNCHANGED <<scene, dragging, budget, steps, dialog, launcher>>

\* the event just handled, with the state s it published; the dialog is
\* opened with showModal, so no field or canvas event arrives while it is open
Done(op, p, focus, newVal, called, ret, read, s) ==
  /\ pc = "ready"
  /\ steps < budget
  /\ ~dialog.open
  /\ steps' = steps + 1
  /\ rgb' = s.rgb
  /\ fields' = s.fields
  /\ last' = [op |-> op, p |-> p, focus |-> focus, newVal |-> newVal,
              called |-> called, ret |-> ret,
              before |-> IF op \in EditOps THEN fields ELSE NoRead, read |-> read,
              rgbChanged |-> s.rgb # rgb, fieldsChanged |-> s.fields # fields,
              repeated |-> /\ op \in EditOps
                           /\ last.op \in EditOps
                           /\ last.focus = focus
                           /\ last.newVal = newVal,
              armed |-> IF op = "mousedown" THEN ~OutsideTriangle(p, V)
                        ELSE IF op = "mouseup" THEN FALSE
                        ELSE last.armed]
  /\ UNCHANGED <<pc, scene, rect, v, V, points, budget, dialog, launcher>>

Same == [rgb |-> rgb, fields |-> fields]

\* the listener of rEl, gEl, bEl run on the field values f
FieldListener(op, focus, f) ==
  LET newVal == ParseFloatOr0(f[idx(focus)])
      c == rebalance(f, focus, newVal)
  IN /\ Done(op, NoPoint, focus, newVal, FALSE, FALSE, f, setPerc(c[1], c[2], c[3]))
     /\ UNCHANGED dragging

\* 'input': the user has typed a text into the field of the focus channel
FieldInput(focus, typed) ==
  FieldListener("input", focus, [fields EXCEPT ![idx(focus)] = typed])

\* 'change': the field is committed with the text it shows
FieldChange(focus) == FieldListener("change", focus, fields)

\* a handlePoint that stores the weights without going through setPerc
handlePointNoFields(p) ==
  LET wts == barycentric(p.x, p.y, V.top, V.left, V.right)
  IN IF ~inside(wts)
       THEN [ret |-> FALSE, s |-> Same]
       ELSE [ret |-> TRUE,
             s |-> [rgb |-> baryToRGB(wts, vertexToChannel), fields |-> fields]]

\* handlePoint(mx, my): whether the point is accepted, and the state left
handlePoint(p) ==
  LET wts == barycentric(p.x, p.y, V.top, V.left, V.right)
      c == baryToRGB(wts, vertexToChannel)
  IN IF ~inside(wts)
       THEN [ret |-> FALSE, s |-> Same]
       ELSE [ret |-> TRUE,
             s |-> setPerc(Mul(c[1], I(100)), Mul(c[2], I(100)), Mul(c[3], I(100)))]

MouseDown(p) ==
  LET h == handlePoint(p)
  IN /\ Done("mousedown", p, "-", Zero, TRUE, h.ret, NoRead, h.s)
     /\ dragging' = h.ret

\* a mousemove listener without the test of dragging
MouseMoveNoGate(p) ==
  LET h == handlePoint(p)
  IN /\ Done("mousemove", p, "-", Zero, TRUE, h.ret, NoRead, h.s)
     /\ UNCHANGED dragging

MouseMove(p) ==
  LET h == IF dragging THEN handlePoint(p) ELSE [ret |-> FALSE, s |-> Same]
  IN /\ Done("mousemove", p, "-", Zero, dragging, h.ret, NoRead, h.s)
     /\ UNCHANGED dragging

MouseUp ==
  /\ Done("mouseup", NoPoint, "-", Zero, FALSE, FALSE, NoRead, Same)
  /\ dragging' = FALSE

Click(p) ==
  LET h == handlePoint(p)
  IN /\ Done("click", p, "-", Zero, TRUE, h.ret, NoRead, h.s)
     /\ UNCHANGED dragging

Next ==
  \/ InitEntrada
  \/ \E focus \in Channels, typed \in TypedValues : FieldInput(focus, typed)
  \/ \E focus \in Channels : FieldChange(focus)
  \/ \E p \in points : MouseDown(p)
  \/ \E p \in points : MouseMove(p)
  \/ MouseUp
  \/ \E p \in points : Click(p)

Spec == Init /\ [][Next]_vars

\* the session on the glyph, explored one event further
SpecLong == InitLong /\ [][Next]_vars

\* the vertex locator alone, as initEntrada runs it, on many rasters
NextLocator == InitEntrada
SpecLocator == InitLocator /\ [][NextLocator]_vars

----------------------------------------------------------------------------
(* Confirmation dialog *)

DialogOps == {"confirm", "ok", "reset", "dismiss"}

\* the confirmations left attached at once, and the weight events of a
\* session with the dialog
MaxPending == 2
ConfirmSteps == 1

\* the three percentages written into dlgText
dialogText(c) ==
  <<ToFixed2(Mul(c[1], I(100))), ToFixed2(Mul(c[2], I(100))), ToFixed2(Mul(c[3], I(100)))>>

\* a confirm handler that writes the displayed percentages back with setPerc
confirmReadRounded(c, f) ==
  LET t == dialogText(c) IN setPerc(t[1], t[2], t[3])

\* what the handlers of btn, dlgOk and dlgReset leave in rgb and the fields:
\* they read rgb into r, g, b and write neither
confirmRead(c, f) == [rgb |-> c, fields |-> f]

\* a dialog event just handled: the state s and the dialog d it leaves
DialogDone(op, s, d) ==
  /\ pc = "ready"
  /\ rgb' = s.rgb
  /\ fields' = s.fields
  /\ dialog' = d
  /\ last' = [NoEvent EXCEPT !.op = op, !.rgbChanged = s.rgb # rgb,
                             !.fieldsChanged = s.fields # fields,
                             !.armed = last.armed]
  /\ UNCHANGED <<pc, scene, rect, v, V, points, dragging, budget, steps, launcher>>

\* click on btn: capture r, g, b, fill the text, showModal, attach ok and re
ConfirmClick ==
  /\ ~dialog.open
  /\ Len(dialog.pending) < MaxPending
  /\ DialogDone("confirm", confirmRead(rgb, fields),
                [dialog EXCEPT !.open = TRUE, !.text = dialogText(rgb),
                               !.pending = Append(@, rgb), !.delivered = <<>>])

\* click on dlgOk: every attached ok runs in the order of attachment; each
\* closes the dialog, calls onConfirm (when set) with its r, g, b and detaches
\* its own ok and re
DialogOk ==
  /\ dialog.open
  /\ DialogDone("ok", confirmRead(rgb, fields),
                [dialog EXCEPT !.open = FALSE, !.pending = <<>>,
                               !.delivered = IF dialog.onConfirm THEN dialog.pending
                                                                 ELSE <<>>])

\* click on dlgReset: every attached re closes the dialog and detaches its pair
DialogReset ==
  /\ dialog.open
  /\ DialogDone("reset", confirmRead(rgb, fields),
                [dialog EXCEPT !.open = FALSE, !.pending = <<>>, !.delivered = <<>>])

\* the modal dialog is closed by the browser (Esc): no listener of the widget runs
DialogDismiss ==
  /\ dialog.open
  /\ DialogDone("dismiss", Same, [dialog EXCEPT !.open = FALSE, !.delivered = <<>>])

\* the caller registers its callback through the returned onConfirm(fn)
OnConfirm ==
  /\ ~dialog.onConfirm
  /\ DialogDone("register", Same, [dialog EXCEPT !.onConfirm = TRUE, !.delivered = <<>>])

InitConfirm == Loaded(Glyph, ConfirmSteps)

NextConfirm ==
  \/ Next
  \/ ConfirmClick
  \/ DialogOk
  \/ DialogReset
  \/ DialogDismiss
  \/ OnConfirm

\* a session on the glyph with the confirm button and the dialog in use
SpecConfirm == InitConfirm /\ [][NextConfirm]_vars

----------------------------------------------------------------------------
(* Pointer sessions *)

\* the pointer events of a drag session
DragSteps == 3
InitDrag == Loaded(Glyph, DragSteps)

NextDrag ==
  \/ InitEntrada
  \/ \E p \in points : MouseDown(p)
  \/ \E p \in points : MouseMove(p)
  \/ MouseUp
  \/ \E p \in points : Click(p)

\* a session on the glyph with pointer events only
SpecDrag == InitDrag /\ [][NextDrag]_vars

----------------------------------------------------------------------------
(* Launcher (start.js): health check of the backend, start of the server *)

MaxRetries == 5
StatusCodes == {200, 503}

\* the calls of the callback explored in a run
MaxCalls == 2

\* the callback given to checkBackendHealth: it spawns 'node server.js'
\* whatever isHealthy is
callback(l, isHealthy) ==
  [l EXCEPT !.calls = Append(@, isHealthy),
            !.nodes = @ + 1,
            !.servers = Append(@, [running |-> TRUE, killed |-> FALSE]),
            !.spawnedUnready = @ \/ ~(l.backendReady \/ l.saw200)]

\* attempt(): one more health request is sent
attempt(l) == [l EXCEPT !.open = @ + 1, !.sent = @ + 1]

\* a shared branch that stops retrying without calling the callback
retryOrStop(l) ==
  IF l.retries < MaxRetries
    THEN [l EXCEPT !.retries = @ + 1, !.timers = @ + 1]
    ELSE l

\* the branch shared by a non-200 response, an error and a timeout: retry
\* while retries < maxRetries, else callback(false)
retryOrGiveUp(l) ==
  IF l.retries < MaxRetries
    THEN [l EXCEPT !.retries = @ + 1, !.timers = @ + 1]
    ELSE callback(l, FALSE)

\* a step of the launcher while it runs: the widget is not involved
ProcessStep(l) ==
  /\ ~launcher.exited
  /\ launcher' = l
  /\ UNCHANGED widget

\* a step of the health check
LauncherStep(l) ==
  /\ Len(launcher.calls) < MaxCalls
  /\ ProcessStep(l)

\* the backend prints 'Server running', 'Starting Noetika' or 'Using Waitress'
BackendMarker ==
  /\ launcher.python.running
  /\ ~launcher.backendReady
  /\ LauncherStep([launcher EXCEPT !.backendReady = TRUE])

\* the waitTime timer of checkBackendHealth fires
WaitElapsed ==
  /\ launcher.timer = "waiting"
  /\ LET l == [launcher EXCEPT !.timer = "fired"]
     IN LauncherStep(IF l.backendReady THEN callback(l, TRUE) ELSE attempt(l))

\* a health request gets its response
HealthResponse(status) ==
  /\ launcher.open > 0
  /\ LET l == [launcher EXCEPT !.open = @ - 1]
     IN LauncherStep(IF status = 200
                       THEN callback([l EXCEPT !.saw200 = TRUE], TRUE)
                       ELSE retryOrGiveUp(l))

\* 'error' on a health request, open or already destroyed by its timeout handler
HealthError ==
  \/ /\ launcher.open > 0
     /\ LauncherStep(retryOrGiveUp([launcher EXCEPT !.open = @ - 1]))
  \/ /\ launcher.destroyed > 0
     /\ LauncherStep(retryOrGiveUp([launcher EXCEPT !.destroyed = @ - 1]))

\* 'timeout' on a health request: req.destroy(), then the shared branch
HealthTimeout ==
  /\ launcher.open > 0
  /\ LauncherStep(retryOrGiveUp([launcher EXCEPT !.open = @ - 1, !.destroyed = @ + 1]))

\* a destroyed request is let go without an 'error' event
HealthClosed ==
  /\ launcher.destroyed > 0
  /\ LauncherStep([launcher EXCEPT !.destroyed = @ - 1])

\* a setTimeout(attempt, retryDelay) fires
RetryTimer ==
  /\ launcher.timers > 0
  /\ LauncherStep(attempt([launcher EXCEPT !.timers = @ - 1]))

\* exit codes of a child; Null is the code of a child ended by a signal
Null == -1
ExitCodes == {Null, 0, 1, 7}

\* process.exit(c) (or the end by an unhandled signal): the launcher is
\* gone; a child still running that was never sent a kill is left behind
exit(l, c, by, seen) ==
  [l EXCEPT !.exited = TRUE, !.code = c, !.cause = [by |-> by, code |-> seen],
            !.orphaned = \/ l.python.running /\ ~l.python.killed
                         \/ \E i \in DOMAIN l.servers :
                               l.servers[i].running /\ ~l.servers[i].killed]

\* pythonBackend.kill() and nodeServer.kill() of server i
killPython(l) == [l EXCEPT !.python.killed = TRUE]
killServer(l, i) == [l EXCEPT !.servers[i].killed = TRUE]

\* an exit handler of the server that leaves the backend alone
serverExitedNoKill(l, i, c) ==
  exit([l EXCEPT !.servers[i].running = FALSE], IF c = Null THEN 0 ELSE c, "server-exit", c)

\* nodeServer.on('exit'): pythonBackend.kill(); process.exit(code || 0)
serverExited(l, i, c) ==
  exit(killPython([l EXCEPT !.servers[i].running = FALSE]),
       IF c = Null THEN 0 ELSE c, "server-exit", c)

\* 'exit' of the Python backend: process.exit(1) for a code other than 0 and null
PythonExit(c) ==
  /\ launcher.python.running
  /\ LET l == [launcher EXCEPT !.python.running = FALSE]
     IN ProcessStep(IF c # 0 /\ c # Null THEN exit(l, 1, "python-exit", c) ELSE l)

\* 'exit' of server i
ServerExit(i, c) ==
  /\ i \in DOMAIN launcher.servers
  /\ launcher.servers[i].running
  /\ ProcessStep(serverExited(launcher, i, c))

\* 'error' of server i (it could not be spawned): pythonBackend.kill(); process.exit(1)
ServerError(i) ==
  /\ i \in DOMAIN launcher.servers
  /\ launcher.servers[i].running
  /\ ProcessStep(exit(killPython([launcher EXCEPT !.servers[i].running = FALSE]),
                      1, "server-error", 1))

\* SIGTERM or SIGINT: the handler registered by the first call of the
\* callback kills its server and the backend and exits with 0; before any
\* call of the callback no handler is registered and the launcher just ends
Signal ==
  /\ ~launcher.exited
  /\ ProcessStep(IF launcher.calls # <<>>
                   THEN exit(killPython(killServer(launcher, 1)), 0, "signal", 0)
                   ELSE exit(launcher, Null, "signal-unhandled", 0))

InitLauncher == Loaded(Glyph, 0)

NextLauncher ==
  \/ BackendMarker
  \/ WaitElapsed
  \/ \E status \in StatusCodes : HealthResponse(status)
  \/ HealthError
  \/ HealthTimeout
  \/ HealthClosed
  \/ RetryTimer
  \/ \E c \in ExitCodes : PythonExit(c)
  \/ \E i \in 1..MaxCalls, c \in ExitCodes : ServerExit(i, c)
  \/ \E i \in 1..MaxCalls : ServerError(i)
  \/ Signal

\* start.js from the spawn of the Python backend on
SpecLauncher == InitLauncher /\ [][NextLauncher]_vars

\* a health request in flight ends: by its response, by an error, or by the
\* timeout that the request option timeout: 2000 arms
HealthSettles ==
  \/ \E status \in StatusCodes : HealthResponse(status)
  \/ HealthError
  \/ HealthTimeout
  \/ HealthClosed

\* the same, with what the event loop guarantees: a timer that was set fires,
\* and a request that was sent ends
SpecLauncherFair ==
  /\ InitLauncher
  /\ [][NextLauncher]_vars
  /\ WF_vars(WaitElapsed)
  /\ WF_vars(RetryTimer)
  /\ WF_vars(HealthSettles)

----------------------------------------------------------------------------
(* Properties *)

Ready == pc = "ready"

\* the published weight vector in percent
Pct(i) == Mul(rgb[i], I(100))
PctVector == <<Pct(1), Pct(2), Pct(3)>>

\* v limited to [0, 100]
Clamped(x) == IF Lt(x, Zero) THEN Zero ELSE IF Gt(x, I(100)) THEN I(100) ELSE x

\* the two channels other than the focus of the last field edit
LastOthers == Others(idx(last.focus))
LastRem == Add(ParseFloatOr0(last.read[MinOf(LastOthers)]),
               ParseFloatOr0(last.read[MaxOf(LastOthers)]))

\* p lies strictly inside T
StrictlyInside(p, T) ==
  /\ ~IsZero(Winding(T))
  /\ \A i \in 1..3 : Sign(EdgeSides(p, T)[i]) * Sign(Winding(T)) > 0

LastWeights == barycentric(last.p.x, last.p.y, V.top, V.left, V.right)

\* C1: after initialization and after every event, each channel of the
\* published weight vector is within [0,100] and the three sum to 100 within 0.001
C1_SumIs100 ==
  Ready =>
    /\ \A i \in 1..3 : Ge(Pct(i), Zero) /\ Le(Pct(i), I(100))
    /\ Le(MathAbs(Sub(Sum3(PctVector), I(100))), Q(1, 1000))

\* C2: after a field edit of channel c to value v, channel c of the published
\* vector is clamp(v, 0, 100), and the field of c shows that value
C2_FocusIsClamped ==
  last.op \in EditOps =>
    /\ Pct(idx(last.focus)) = Clamped(last.newVal)
    /\ fields[idx(last.focus)] = ToFixed2(Clamped(last.newVal))

C2_Witness ==
  /\ last.op = "input"
  /\ last.focus = "R"
  /\ last.newVal = I(150)
  /\ Pct(1) = I(100)
  /\ last.before[1] = I(50)

\* C3: a field edit applied a second time, with the same channel and value,
\* to the state the first application left, does not change the weight vector
C3_Idempotent == last.repeated => ~last.rgbChanged

\* C4: when the other two channels, as read by a field edit, have a positive
\* sum rem, each is published multiplied by (100 - clamp(v)) / rem and together
\* they hold 100 - clamp(v); from the uniform fields, B edited to 60 leaves R = G = 20
C4_Proportional ==
  /\ (last.op \in EditOps /\ Gt(LastRem, Zero)) =>
       /\ \A j \in LastOthers :
            Mul(Pct(j), LastRem) =
              Mul(ParseFloatOr0(last.read[j]), Sub(I(100), Clamped(last.newVal)))
       /\ Add(Pct(MinOf(LastOthers)), Pct(MaxOf(LastOthers))) =
            Sub(I(100), Clamped(last.newVal))
  /\ (/\ last.op = "input"
      /\ last.focus = "B"
      /\ last.newVal = I(60)
      /\ last.before = <<Q(3333, 100), Q(3333, 100), Q(3333, 100)>>) =>
       PctVector = <<I(20), I(20), I(60)>>

C4_Witness ==
  /\ last.op = "input"
  /\ last.focus = "B"
  /\ last.newVal = I(60)
  /\ last.before = <<Q(3333, 100), Q(3333, 100), Q(3333, 100)>>
  /\ Gt(LastRem, Zero)
  /\ fields = <<I(20), I(20), I(60)>>

\* C5: a pointer event that reaches handlePoint with a point outside the
\* triangle returns false and leaves the weight vector and the fields as they were
C5_OutsideRejected ==
  (last.op \in PointOps /\ last.called /\ OutsideTriangle(last.p, V)) =>
    ~last.ret /\ ~last.rgbChanged /\ ~last.fieldsChanged

C5_Witness ==
  /\ last.op = "click"
  /\ last.called
  /\ ~IsZero(Winding(V))
  /\ OutsideTriangle(last.p, V)
  /\ ~last.ret
  /\ fields # <<Q(3333, 100), Q(3333, 100), Q(3333, 100)>>

\* C6: a pointer event that reaches handlePoint with a point whose three
\* barycentric weights are all >= -1e-6 (a vertex, a point on an edge, the
\* centroid) is accepted
C6_EdgeAccepted ==
  (/\ last.op \in PointOps
   /\ last.called
   /\ ~IsZero(Winding(V))
   /\ \A i \in 1..3 : Ge(LastWeights[i], Neg(InsideTol))) => last.ret

\* C7: after an accepted pointer event at p the published vector is
\* B = 100 w_top, R = 100 w_left, G = 100 w_right for the barycentric weights
\* of p; at the centroid of top (50,0), left (0,100), right (100,100) the
\* three fields show 33.33
C7_PointToChannels ==
  /\ (last.op \in PointOps /\ last.ret) =>
       /\ Pct(3) = Mul(I(100), LastWeights[1])
       /\ Pct(1) = Mul(I(100), LastWeights[2])
       /\ Pct(2) = Mul(I(100), LastWeights[3])
  /\ (/\ last.op \in PointOps
      /\ last.called
      /\ v = [top |-> Pt(I(50), I(0)), left |-> Pt(I(0), I(100)), right |-> Pt(I(100), I(100))]
      /\ last.p = Offset(rect, Pt(I(50), Q(200, 3)))) =>
       /\ last.ret
       /\ rgb = <<Q(1, 3), Q(1, 3), Q(1, 3)>>
       /\ fields = <<Q(3333, 100), Q(3333, 100), Q(3333, 100)>>

C7_Witness ==
  /\ last.op = "click"
  /\ last.ret
  /\ v = [top |-> Pt(I(50), I(0)), left |-> Pt(I(0), I(100)), right |-> Pt(I(100), I(100))]
  /\ last.p = Offset(rect, Pt(I(50), Q(200, 3)))
  /\ last.rgbChanged

\* the point with barycentric weights w in T
PointOfWeights(w, T) ==
  Pt(Add(Add(Mul(w[1], T.top.x), Mul(w[2], T.left.x)), Mul(w[3], T.right.x)),
     Add(Add(Mul(w[1], T.top.y), Mul(w[2], T.left.y)), Mul(w[3], T.right.y)))

\* C8: for a pointer position p strictly inside a triangle of non-zero area,
\* the point recomputed from the barycentric weights of p is p; when the
\* event is accepted, the marker drawn from the stored weights sits at p
C8_RoundTrip ==
  /\ (last.op \in PointOps /\ last.called /\ StrictlyInside(last.p, V)) =>
       PointOfWeights(LastWeights, V) = last.p
  /\ (last.op \in PointOps /\ last.ret) => Marker = last.p

C8_Witness ==
  /\ last.op = "mousedown"
  /\ last.ret
  /\ StrictlyInside(last.p, V)
  /\ Pct(1) # Pct(2)
  /\ Pct(2) # Pct(3)
  /\ Marker = last.p

\* the case of C9: the fields show R = 0, G = 0, B = 100 and 50 is typed into R
C9_Case ==
  /\ last.op = "input"
  /\ last.focus = "R"
  /\ last.newVal = I(50)
  /\ last.before = <<I(0), I(0), I(100)>>

\* C9: from {R:0, G:0, B:100}, the field edit that sets R to 50 publishes
\* R = 50, G = 25, B = 25
C9_EqualSplit == C9_Case => PctVector = <<I(50), I(25), I(25)>>

\* C9 as amended: it publishes R = 50, G = 0, B = 50
C9_Proportional == C9_Case => PctVector = <<I(50), I(0), I(50)>>

C9_Witness == C9_Case /\ fields = <<I(50), I(0), I(50)>>

\* C10: for a raster of w x h in which no pixel has alpha >= 30, the vertex
\* locator returns top = (w/2, 0), left = (0, h-1), right = (w-1, h-1)
C10_TransparentFallback ==
  (Ready /\ \A q \in DOMAIN scene.alpha : scene.alpha[q] < 30) =>
    v = [top |-> Pt(Q(rect.w, 2), I(0)),
         left |-> Pt(I(0), I(rect.h - 1)),
         right |-> Pt(I(rect.w - 1), I(rect.h - 1))]

C10_Witness ==
  /\ Ready
  /\ \A q \in DOMAIN scene.alpha : scene.alpha[q] < 30
  /\ \E q \in DOMAIN scene.alpha : scene.alpha[q] = 29
  /\ rect.w = 7
  /\ v.top = Pt(Q(7, 2), I(0))

\* C11: a pointer event is converted by barycentric only on a triangle of
\* non-zero area: the located vertices are never collinear when handlePoint runs
C11_NoDegenerateConversion ==
  (last.op \in PointOps /\ last.called) => ~IsZero(Winding(V))

\* C12: the session starts with the three fields at 33.33 and a weight vector
\* that rounds to 33.33 / 33.33 / 33.33; opening the confirm dialog, clicking
\* OK and clicking Reset change neither the weight vector nor the fields
C12_ConfirmOnlyReads ==
  /\ last.op = "init" =>
        /\ fields = <<Q(3333, 100), Q(3333, 100), Q(3333, 100)>>
        /\ \A i \in 1..3 : ToFixed2(Pct(i)) = Q(3333, 100)
  /\ last.op \in DialogOps => ~last.rgbChanged /\ ~last.fieldsChanged

C12_Witness ==
  /\ last.op = "ok"
  /\ dialog.delivered # <<>>
  /\ dialog.delivered[1] = rgb
  /\ \E i \in 1..3 : ToFixed2(Pct(i)) # Pct(i)
  /\ fields # <<Q(3333, 100), Q(3333, 100), Q(3333, 100)>>

\* C13: when a field edit reads zero in both channels other than the focus,
\* each of the two is published as half of 100 - clamp(v)
C13_ZeroOthersSplitEqually ==
  (/\ last.op \in EditOps
   /\ \A j \in LastOthers : IsZero(ParseFloatOr0(last.read[j]))) =>
    \A j \in LastOthers :
      Pct(j) = Mul(Sub(I(100), Clamped(last.newVal)), Q(1, 2))

\* C14: every field edit publishes three defined numbers: no channel of the
\* weight vector and no field is NaN or infinite after it, whatever was read
C14_EditPublishesNumbers ==
  last.op \in EditOps =>
    \A i \in 1..3 : IsFin(rgb[i]) /\ IsFin(fields[i])

\* C15: rgbToBary undoes baryToRGB on the weights of an accepted pointer
\* event (non-negative, summing to 1), and applied to the stored weight
\* vector it returns a triple that sums to 1 (within 0.00001)
C15_InverseAndUnitSum ==
  /\ (last.op \in PointOps /\ last.ret) =>
        rgbToBary(baryToRGB(LastWeights, vertexToChannel), vertexToChannel) = LastWeights
  /\ Ready =>
        Le(MathAbs(Sub(Sum3(rgbToBary(rgb, vertexToChannel)), I(1))), Q(1, 100000))

\* the pixels of the session's raster with alpha >= 30, as a pixel of them
\* is written as a point
Opaque == {q \in DOMAIN scene.alpha :
             /\ q[1] \in 0..(rect.w - 1)
             /\ q[2] \in 0..(rect.h - 1)
             /\ scene.alpha[q] >= 30}
AsPoint(q) == Pt(I(q[1]), I(q[2]))
TopBand == {q \in Opaque : \A o \in Opaque : q[2] <= o[2] + 3}
LeftBand == {q \in Opaque : \A o \in Opaque : q[1] <= o[1] + 3}
RightBand == {q \in Opaque : \A o \in Opaque : q[1] >= o[1] - 3}

\* C16: when some pixel has alpha >= 30, the top vertex is a pixel with y
\* within 3 of the least y, and no pixel of that band has its x closer to the
\* mean x of the band
C16_TopNearestBandMean ==
  (Ready /\ Opaque # {}) =>
    \E q \in TopBand :
      /\ v.top = AsPoint(q)
      /\ \A o \in TopBand :
           AbsI(q[1] * Cardinality(TopBand) - SumX(TopBand))
             <= AbsI(o[1] * Cardinality(TopBand) - SumX(TopBand))

C16_Witness ==
  /\ Ready
  /\ TopBand = {<<0, 0>>, <<3, 0>>, <<4, 2>>}
  /\ Opaque # TopBand
  /\ v.top = AsPoint(<<3, 0>>)

\* C17: when some pixel has alpha >= 30, the left vertex is a pixel of
\* largest y among those with x within 3 of the least x, and the right vertex
\* a pixel of largest y among those with x within 3 of the greatest x
C17_LeftRightLowestOfBand ==
  (Ready /\ Opaque # {}) =>
    /\ \E q \in LeftBand : v.left = AsPoint(q) /\ \A o \in LeftBand : q[2] >= o[2]
    /\ \E q \in RightBand : v.right = AsPoint(q) /\ \A o \in RightBand : q[2] >= o[2]

C17_Witness ==
  /\ Ready
  /\ LeftBand = {<<0, 0>>, <<3, 0>>, <<1, 5>>}
  /\ RightBand = {<<3, 0>>, <<4, 2>>, <<6, 6>>}
  /\ v.left = AsPoint(<<1, 5>>)
  /\ v.right = AsPoint(<<6, 6>>)

\* C18: a mousemove changes the weights or the fields only when the latest
\* mousedown landed in the triangle and no mouseup came since; after a
\* mousedown outside the triangle no drag is on; a mousemove outside the
\* triangle changes nothing
C18_DragGating ==
  /\ (last.op = "mousemove" /\ (last.rgbChanged \/ last.fieldsChanged)) => last.armed
  /\ (last.op = "mousedown" /\ OutsideTriangle(last.p, V)) => ~dragging
  /\ (last.op = "mousemove" /\ OutsideTriangle(last.p, V)) =>
        ~last.rgbChanged /\ ~last.fieldsChanged

C18_Witness ==
  /\ last.op = "mousemove"
  /\ last.rgbChanged
  /\ last.armed
  /\ dragging
  /\ steps = 3

\* C19: once the widget is set up, after every pointer event and field edit,
\* each displayed field equals the stored weight times 100, rounded to two
\* decimals
C19_FieldsShowWeights ==
  Ready => \A i \in 1..3 : fields[i] = ToFixed2(Pct(i))

C19_Witness ==
  /\ last.op \in EditOps
  /\ last.fieldsChanged
  /\ \A i \in 1..3 : IsFin(rgb[i])
  /\ \E i \in 1..3 : fields[i] # Pct(i)
  /\ \A i \in 1..3 : fields[i] = ToFixed2(Pct(i))

\* C20: 'node server.js' is spawned only when a readiness marker has been
\* seen in the backend's output or a health request has returned status 200
C20_ServerAfterBackendReady ==
  launcher.nodes > 0 => ~launcher.spawnedUnready

\* C21: in a run of checkBackendHealth the callback is invoked at most once,
\* whatever the order of the response, error and timeout events, so at most
\* one 'node server.js' is spawned
C21_CallbackOnce ==
  Len(launcher.calls) <= 1 /\ launcher.nodes <= 1

\* C22: the retry counter never exceeds maxRetries and at most maxRetries + 1
\* health requests are sent; while no request has returned 200 the callback
\* is only ever invoked with false; and the callback is eventually invoked,
\* unless the launcher exits first
C22_HealthCheckTerminates ==
  /\ [](launcher.retries <= MaxRetries /\ launcher.sent <= MaxRetries + 1)
  /\ []((launcher.sent > 0 /\ ~launcher.saw200) =>
          \A i \in DOMAIN launcher.calls : ~launcher.calls[i])
  /\ <>(launcher.calls # <<>> \/ launcher.exited)

C22_Witness ==
  /\ launcher.sent = MaxRetries + 1
  /\ launcher.retries = MaxRetries
  /\ ~launcher.saw200
  /\ ~launcher.backendReady
  /\ launcher.calls = <<FALSE>>

\* C23: when the launcher exits, every child it spawned that is still
\* running has been sent a kill
C23_NoOrphan ==
  launcher.exited => ~launcher.orphaned

\* C24: a launcher ended by the exit of the Node.js server with code c has
\* sent the Python backend a kill and exits with c, or with 0 when the
\* server reported no code; a launcher ended by the exit of the Python
\* backend with a non-zero code exits with 1
C24_ExitCodes ==
  /\ (launcher.exited /\ launcher.cause.by = "server-exit") =>
        /\ launcher.python.killed
        /\ launcher.code = (IF launcher.cause.code = Null THEN 0 ELSE launcher.cause.code)
  /\ (launcher.exited /\ launcher.cause.by = "python-exit") =>
        /\ launcher.cause.code \notin {0, Null}
        /\ launcher.code = 1

C24_Witness ==
  /\ launcher.exited
  /\ launcher.cause = [by |-> "server-exit", code |-> 7]
  /\ launcher.code = 7
  /\ launcher.python.running
  /\ launcher.python.killed

\* C25: one click on OK invokes the registered onConfirm callback at most
\* once, and when a confirmation is opened the only OK and Reset listeners
\* attached are its own
C25_OneConfirmPerOk ==
  /\ last.op = "ok" => Len(dialog.delivered) <= 1
  /\ last.op = "confirm" => Len(dialog.pending) = 1

\* C26: when some pixel has alpha >= 30, each of the three vertices is one
\* of those pixels, so it lies in the raster, and none of the three band
\* filters is empty, so no vertex comes from the closest-point branch
C26_VerticesAreOpaquePixels ==
  (Ready /\ Opaque # {}) =>
    /\ \A p \in {v.top, v.left, v.right} :
         /\ \E q \in Opaque : p = AsPoint(q)
         /\ Le(Zero, p.x) /\ Lt(p.x, I(rect.w))
         /\ Le(Zero, p.y) /\ Lt(p.y, I(rect.h))
    /\ sel(Opaque, 2, TRUE) # {}
    /\ sel(Opaque, 1, TRUE) # {}
    /\ sel(Opaque, 1, FALSE) # {}

C26_Witness ==
  /\ Ready
  /\ Opaque # {}
  /\ Opaque # DOMAIN scene.alpha
  /\ Cardinality({v.top, v.left, v.right}) = 3
  /\ \E q \in Opaque : q \notin sel(Opaque, 2, TRUE)

====
